---- MODULE Spec2Model ----
(***************************************************************************)
(* The game-state engine of src/src/App.tsx (the App component) and its    *)
(* helpers of src/unnamed/part_000 (utils), as a state machine.            *)
(*                                                                         *)
(* One action is one event handler or timer callback together with the     *)
(* state updates React batches for it, up to the commit of the render.     *)
(* The passive effects of a commit (useEffect) run after that commit and   *)
(* before any later event: they are the action flushEffects, which is the  *)
(* only action enabled while an effect is pending.                         *)
(*                                                                         *)
(* A block is modelled by its value (its id is a random string that no     *)
(* rule of the engine reads); NULL is the empty cell. `selected` is the    *)
(* set of the coordinates the array holds: the array never holds a         *)
(* coordinate twice, and the code reads only membership, length and sum.   *)
(* `last` records the outcome of the last game event (initGame, a click    *)
(* that was not ignored, a timer callback that called addNewRow).          *)
(* `sampled` records the sum generateNewTarget drew for the current target  *)
(* (0 when it found no block). `forgot` records that, since the game      *)
(* started or since the last callback of the classic timer, a rerun of the *)
(* timer effect replaced a classic interval that had run for a second or   *)
(* more. `successes` counts the successes of the current game. No action   *)
(* reads any of the three.                                                 *)
(***************************************************************************)
EXTENDS Integers, FiniteSets, Sequences, TLC

\* The grid of the model: the source's 6 x 10 grid with 4 initial rows,
\* scaled down.
GRID_COLS == 2
GRID_ROWS == 3
INITIAL_ROWS == 1
\* The score is unbounded in the source: a success that would pass MaxScore
\* is not taken.
MaxScore == 10
\* The values the model draws for new blocks, among the source's 1..9: the
\* first block of a row from FirstValues, the others from Values.
Values == {2, 3}
FirstValues == {2}

NULL == 0
MaxValue == 9
ClassicTicks == 15

Rows == 0 .. (GRID_ROWS - 1)
Cols == 0 .. (GRID_COLS - 1)
Cells == Rows \X Cols

VARIABLES status, mode, grid, selected, target, score, timeLeft, isPaused,
          highScore, timerRef, elapsed, timerDirty, last, sampled, forgot,
          successes

vars == <<status, mode, grid, selected, target, score, timeLeft, isPaused,
          highScore, timerRef, elapsed, timerDirty, last, sampled, forgot,
          successes>>

Min(a, b) == IF a < b THEN a ELSE b
Max(a, b) == IF a > b THEN a ELSE b

\* getRandomValue: Math.floor(Math.random() * 9) + 1
getRandomValue == {v \in 1 .. MaxValue : v \in Values}

\* generateRow returning a row of empty cells
generateRow_empty == {[c \in Cols |-> NULL]}

\* generateRow: GRID_COLS fresh blocks, every cell occupied
generateRow == {row \in [Cols -> getRandomValue] : row[0] \in FirstValues}

\* grid[r][c]?.value || 0
valueAt(g, cell) == g[cell[1]][cell[2]]

RECURSIVE sumOf(_, _)
sumOf(g, cells) ==
  IF cells = {} THEN 0
  ELSE LET x == CHOOSE y \in cells : TRUE
       IN valueAt(g, x) + sumOf(g, cells \ {x})

occupied(g) == {cell \in Cells : valueAt(g, cell) # NULL}

\* the draw with its count taken from 2..5
sampleSums_upToFive(currentGrid) ==
  LET flatBlocks == occupied(currentGrid)
      n == Cardinality(flatBlocks)
  IN {sumOf(currentGrid, picked) :
        picked \in {s \in SUBSET flatBlocks :
                      \E k \in 2 .. 5 : Cardinality(s) = Min(n, k)}}

\* generateNewTarget: the sums the blocks of shuffled.slice(0, count) can
\* have, count = Math.min(flatBlocks.length, Math.floor(Math.random() * 3) + 2)
sampleSums(currentGrid) ==
  LET flatBlocks == occupied(currentGrid)
      n == Cardinality(flatBlocks)
  IN {sumOf(currentGrid, picked) :
        picked \in {s \in SUBSET flatBlocks :
                      \E k \in 2 .. 4 : Cardinality(s) = Min(n, k)}}

\* generateNewTarget without the lower clamp Math.max(5, .)
generateNewTarget_noFloor(currentGrid) ==
  IF occupied(currentGrid) = {} THEN {10}
  ELSE {Min(sum, 40) : sum \in sampleSums(currentGrid)}

\* generateNewTarget: the set of the results the random draws can give
generateNewTarget(currentGrid) ==
  IF occupied(currentGrid) = {} THEN {10}
  ELSE {Max(5, Min(sum, 40)) : sum \in sampleSums(currentGrid)}

\* the sums generateNewTarget can have drawn from currentGrid when it
\* returned t: t itself, a sum below 5 when t is 5, one above 40 when t is 40
sampledFor(currentGrid, t) ==
  IF occupied(currentGrid) = {} THEN {0}
  ELSE {sum \in sampleSums(currentGrid) :
          \/ sum = t
          \/ sum < 5 /\ t = 5
          \/ sum > 40 /\ t = 40}

\* addNewRow with the top row tested by every() instead of some()
addNewRow_every(prev, newRow) ==
  IF \A c \in Cols : prev[0][c] # NULL
  THEN [grid |-> prev, gameover |-> TRUE]
  ELSE [grid |-> [r \in Rows |-> IF r < GRID_ROWS - 1 THEN prev[r + 1] ELSE newRow],
        gameover |-> FALSE]

\* addNewRow with the shift overwriting the bottom row only
addNewRow_noShift(prev, newRow) ==
  IF \E c \in Cols : prev[0][c] # NULL
  THEN [grid |-> prev, gameover |-> TRUE]
  ELSE [grid |-> [r \in Rows |-> IF r < GRID_ROWS - 1 THEN prev[r] ELSE newRow],
        gameover |-> FALSE]

\* addNewRow without its game-over test: the top row is shifted out
addNewRow_neverOver(prev, newRow) ==
  [grid |-> [r \in Rows |-> IF r < GRID_ROWS - 1 THEN prev[r + 1] ELSE newRow],
   gameover |-> FALSE]

\* addNewRow with the game-over test reading row 1 instead of row 0
addNewRow_rowOne(prev, newRow) ==
  IF \E c \in Cols : prev[1][c] # NULL
  THEN [grid |-> prev, gameover |-> TRUE]
  ELSE [grid |-> [r \in Rows |-> IF r < GRID_ROWS - 1 THEN prev[r + 1] ELSE newRow],
        gameover |-> FALSE]

\* addNewRow's updater on the grid prev, newRow being the generateRow() it
\* draws: the next grid, and whether it called setStatus('gameover')
addNewRow(prev, newRow) ==
  IF \E c \in Cols : prev[0][c] # NULL
  THEN [grid |-> prev, gameover |-> TRUE]
  ELSE [grid |-> [r \in Rows |-> IF r < GRID_ROWS - 1 THEN prev[r + 1] ELSE newRow],
        gameover |-> FALSE]

\* the deps [status, mode, isPaused] of the timer effect changed in this commit
depsChanged == <<status', mode', isPaused'>> # <<status, mode, isPaused>>

effectsPending == timerDirty \/ score > highScore

Init ==
  /\ status = "idle"
  /\ mode = "classic"
  /\ grid = <<>>
  /\ selected = {}
  /\ target = 0
  /\ score = 0
  /\ timeLeft = 10
  /\ isPaused = FALSE
  /\ highScore = 0
  /\ timerRef = "none"
  /\ elapsed = 0
  /\ timerDirty = FALSE
  /\ last = "mount"
  /\ sampled = 0
  /\ forgot = FALSE
  /\ successes = 0

\* the time-mode start value given to classic mode too
initialTime_always(selectedMode) == 15

\* initGame: setTimeLeft(selectedMode === 'time' ? 15 : 0)
initialTime(selectedMode) == IF selectedMode = "time" THEN 15 ELSE 0

\* initGame(selectedMode): the two mode buttons of the menu, and Try Again
\* (initGame(mode)) of the game-over overlay
initGame(selectedMode) ==
  /\ ~effectsPending
  /\ \/ status = "idle"
     \/ status = "gameover" /\ selectedMode = mode
  /\ \E fill \in [(GRID_ROWS - INITIAL_ROWS) .. (GRID_ROWS - 1) -> generateRow] :
       LET initialGrid == [r \in Rows |->
                             IF r >= GRID_ROWS - INITIAL_ROWS THEN fill[r]
                             ELSE [c \in Cols |-> NULL]]
       IN /\ grid' = initialGrid
          /\ target' \in generateNewTarget(initialGrid)
          /\ sampled' \in sampledFor(initialGrid, target')
  /\ mode' = selectedMode
  /\ status' = "playing"
  /\ score' = 0
  /\ selected' = {}
  /\ timeLeft' = initialTime(selectedMode)
  /\ isPaused' = FALSE
  /\ last' = "initGame"
  /\ forgot' = FALSE
  /\ successes' = 0
  /\ UNCHANGED <<highScore, timerRef, elapsed>>
  /\ timerDirty' = depsChanged

\* points = target, the number of blocks forgotten
pointsOf_targetOnly(selectedBlocks) == target

\* handleSuccess: points = target * selectedBlocks.length
pointsOf(selectedBlocks) == target * Cardinality(selectedBlocks)

\* handleSuccess: the updater that clears the selected blocks (no gravity)
clearBlocks(prev, selectedBlocks) ==
  [r \in Rows |-> [c \in Cols |->
     IF <<r, c>> \in selectedBlocks THEN NULL ELSE prev[r][c]]]

\* the bonus without its cap at 20
bonusTime_noCap(prev) == prev + 5

\* handleSuccess: setTimeLeft(prev => Math.min(prev + 5, 20))
bonusTime(prev) == Min(prev + 5, 20)

\* handleSuccess(selectedBlocks), called by handleBlockClick. The updaters of
\* the grid run in the order they were queued: the clear, the new target
\* (from the cleared grid), then addNewRow's in classic mode.
handleSuccess(selectedBlocks) ==
  LET cleared == clearBlocks(grid, selectedBlocks)
  IN /\ score + pointsOf(selectedBlocks) <= MaxScore
     /\ score' = score + pointsOf(selectedBlocks)
     /\ selected' = {}
     /\ target' \in generateNewTarget(cleared)
     /\ sampled' \in sampledFor(cleared, target')
     /\ IF mode = "classic"
        THEN /\ \E newRow \in generateRow :
                  LET res == addNewRow(cleared, newRow)
                  IN /\ grid' = res.grid
                     /\ status' = IF res.gameover THEN "gameover" ELSE status
             /\ timeLeft' = timeLeft
        ELSE /\ grid' = cleared
             /\ status' = status
             /\ timeLeft' = bonusTime(timeLeft)
     /\ last' = "success"
     /\ successes' = successes + 1

\* the early returns without the test of isPaused
clickIgnored_noPause(r, c) == status # "playing" \/ grid[r][c] = NULL

\* handleBlockClick: the early returns
clickIgnored(r, c) == status # "playing" \/ isPaused \/ grid[r][c] = NULL

\* handleBlockClick: newSelected, the selection with (r, c) toggled
toggled(r, c) ==
  IF <<r, c>> \in selected THEN selected \ {<<r, c>>}
  ELSE selected \cup {<<r, c>>}

\* the selection is kept when the sum passes the target
resolved_keep(newSelected, currentSum) == newSelected

\* handleBlockClick: the selection it leaves when the sum is not the target:
\* setSelected(newSelected), then setSelected([]) when the sum is above it
resolved(newSelected, currentSum) ==
  IF currentSum > target THEN {} ELSE newSelected

\* handleBlockClick(r, c): a click on the cell (r, c) of the game screen
handleBlockClick(r, c) ==
  /\ ~effectsPending
  /\ status # "idle"
  /\ IF clickIgnored(r, c)
     THEN UNCHANGED vars
     ELSE LET newSelected == toggled(r, c)
              currentSum == sumOf(grid, newSelected)
          IN /\ IF currentSum = target
                THEN handleSuccess(newSelected)
                ELSE /\ selected' = resolved(newSelected, currentSum)
                     /\ last' = IF currentSum > target THEN "overshoot" ELSE "select"
                     /\ UNCHANGED <<grid, target, score, timeLeft, status, sampled,
                                    successes>>
             /\ UNCHANGED <<mode, isPaused, highScore, timerRef, elapsed, forgot>>
             /\ timerDirty' = depsChanged

\* the timeout taken at 0 instead of 1
timedOut_atZero(prev) == prev <= 0

\* the interval callback of time mode: prev <= 1
timedOut(prev) == prev <= 1

\* the callback of the 1000 ms interval of time mode
timeTick ==
  /\ ~effectsPending
  /\ timerRef = "time"
  /\ IF timedOut(timeLeft)
     THEN /\ \E newRow \in generateRow :
               LET res == addNewRow(grid, newRow)
               IN /\ grid' = res.grid
                  /\ status' = IF res.gameover THEN "gameover" ELSE status
          /\ timeLeft' = 10
          /\ last' = "timeout"
     ELSE /\ timeLeft' = timeLeft - 1
          /\ UNCHANGED <<grid, status, last>>
  /\ UNCHANGED <<mode, selected, target, score, isPaused, highScore, timerRef, elapsed,
                 sampled, forgot, successes>>
  /\ timerDirty' = depsChanged

\* one second of the 15000 ms interval of classic mode; its callback runs
\* addNewRow when the fifteenth has passed
classicTick ==
  /\ ~effectsPending
  /\ timerRef = "classic"
  /\ IF elapsed + 1 < ClassicTicks
     THEN /\ elapsed' = elapsed + 1
          /\ forgot' = forgot
          /\ UNCHANGED <<grid, status, last>>
     ELSE /\ elapsed' = 0
          /\ forgot' = FALSE
          /\ \E newRow \in generateRow :
               LET res == addNewRow(grid, newRow)
               IN /\ grid' = res.grid
                  /\ status' = IF res.gameover THEN "gameover" ELSE status
          /\ last' = "classicTimer"
  /\ UNCHANGED <<mode, selected, target, score, timeLeft, isPaused, highScore, timerRef,
                 sampled, successes>>
  /\ timerDirty' = depsChanged

\* the pause button of the header: setIsPaused(!isPaused)
togglePause ==
  /\ ~effectsPending
  /\ status # "idle"
  /\ isPaused' = ~isPaused
  /\ timerDirty' = TRUE
  /\ UNCHANGED <<status, mode, grid, selected, target, score, timeLeft, highScore,
                 timerRef, elapsed, last, sampled, forgot, successes>>

\* the Resume button of the pause overlay: setIsPaused(false)
resume ==
  /\ ~effectsPending
  /\ status # "idle"
  /\ isPaused
  /\ isPaused' = FALSE
  /\ timerDirty' = TRUE
  /\ UNCHANGED <<status, mode, grid, selected, target, score, timeLeft, highScore,
                 timerRef, elapsed, last, sampled, forgot, successes>>

\* the X button of the header and Menu of the game-over overlay:
\* setStatus('idle')
returnToMenu ==
  /\ ~effectsPending
  /\ status # "idle"
  /\ status' = "idle"
  /\ timerDirty' = TRUE
  /\ UNCHANGED <<mode, grid, selected, target, score, timeLeft, isPaused, highScore,
                 timerRef, elapsed, last, sampled, forgot, successes>>

\* the timer effect without its test of isPaused
timerEffect_ignoresPause == IF status = "playing" THEN mode ELSE "none"

\* the timer effect: the interval it leaves running, after the cleanup of
\* the one before
timerEffect == IF status = "playing" /\ ~isPaused THEN mode ELSE "none"

\* the passive effects of the last commit: the timer effect when its deps
\* changed, and the high-score effect
flushEffects ==
  /\ effectsPending
  /\ IF timerDirty
     THEN /\ timerRef' = timerEffect
          /\ elapsed' = 0
          /\ forgot' = (forgot \/ elapsed > 0)
     ELSE UNCHANGED <<timerRef, elapsed, forgot>>
  /\ highScore' = IF score > highScore THEN score ELSE highScore
  /\ timerDirty' = FALSE
  /\ UNCHANGED <<status, mode, grid, selected, target, score, timeLeft, isPaused, last,
                 sampled, successes>>

Next ==
  \/ \E selectedMode \in {"classic", "time"} : initGame(selectedMode)
  \/ \E r \in Rows, c \in Cols : handleBlockClick(r, c)
  \/ timeTick
  \/ classicTick
  \/ togglePause
  \/ resume
  \/ returnToMenu
  \/ flushEffects

Spec == Init /\ [][Next]_vars

\* An interval that stays registered keeps calling its callback, and the
\* passive effects of a commit are always run.
LiveSpec ==
  /\ Spec
  /\ WF_vars(timeTick)
  /\ WF_vars(classicTick)
  /\ WF_vars(flushEffects)

(***************************************************************************)
(* generateNewTarget on its own: the grid is any grid of blocks and holes,  *)
(* and the one action draws a target from it.                               *)
(***************************************************************************)
AllGrids == [Rows -> [Cols -> {NULL} \cup getRandomValue]]

TargetInit ==
  /\ status = "playing"
  /\ mode = "classic"
  /\ grid \in AllGrids
  /\ selected = {}
  /\ target = 0
  /\ score = 0
  /\ timeLeft = 0
  /\ isPaused = FALSE
  /\ highScore = 0
  /\ timerRef = "none"
  /\ elapsed = 0
  /\ timerDirty = FALSE
  /\ last = "mount"
  /\ sampled = 0
  /\ forgot = FALSE
  /\ successes = 0

\* setTarget(generateNewTarget(grid))
drawTarget ==
  /\ target' \in generateNewTarget(grid)
  /\ sampled' \in sampledFor(grid, target')
  /\ last' = "generateNewTarget"
  /\ UNCHANGED <<status, mode, grid, selected, score, timeLeft, isPaused, highScore,
                 timerRef, elapsed, timerDirty, forgot, successes>>

TargetSpec == TargetInit /\ [][drawTarget]_vars

(***************************************************************************)
(* handleBlockClick on its own: a game of either mode with any grid of     *)
(* blocks and holes, a target drawn from it and, in time mode, any         *)
(* timeLeft of TimesLeft; the actions are the clicks and their effects.    *)
(* A success with timeLeft above 15 needs two successes with no timeout in *)
(* between, which the first row of GRID_COLS blocks of Spec does not hold. *)
(***************************************************************************)
TimesLeft == 12 .. 20

ClickInit ==
  /\ status = "playing"
  /\ mode \in {"classic", "time"}
  /\ grid \in {g \in AllGrids : \A r \in Rows : g[r][0] \in {NULL} \cup FirstValues}
  /\ selected = {}
  /\ target \in generateNewTarget(grid)
  /\ sampled \in sampledFor(grid, target)
  /\ score = 0
  /\ timeLeft \in (IF mode = "time" THEN TimesLeft ELSE {0})
  /\ isPaused = FALSE
  /\ highScore = 0
  /\ timerRef = mode
  /\ elapsed = 0
  /\ timerDirty = FALSE
  /\ last = "mount"
  /\ forgot = FALSE
  /\ successes = 0

ClickNext ==
  \/ \E r \in Rows, c \in Cols : handleBlockClick(r, c)
  \/ flushEffects

ClickSpec == ClickInit /\ [][ClickNext]_vars

(***************************************************************************)
(* Claims                                                                  *)
(***************************************************************************)

\* the state before the first initGame: the grid is still the empty array
initialized == grid # <<>>

\* C1 as stated: in every reachable state, the state before the first
\* initialize included, 5 <= target <= 40.
C1_TargetInRange == 5 <= target /\ target <= 40

\* C1 amended: in every reachable state from the first initialize on,
\* 5 <= target <= 40; before the first initialize target is 0.
C1_TargetInRangeOnceInitialized ==
  IF initialized THEN 5 <= target /\ target <= 40 ELSE target = 0

\* a game whose target is the lower clamp: the blocks of the grid sum to
\* less than 5
C1_Witness ==
  /\ status = "playing"
  /\ target = 5
  /\ sumOf(grid, occupied(grid)) < 5

\* C2: in every reachable state every coordinate of the selection
\* references an occupied cell of the grid.
C2_SelectionOccupied == \A cell \in selected : valueAt(grid, cell) # NULL

\* the top row of the grid g holds a block
RowZeroOccupied(g) == \E c \in Cols : g[0][c] # NULL

\* the grid g with the cells of the set cells emptied
Emptied(g, cells) ==
  [r \in Rows |-> [c \in Cols |-> IF <<r, c>> \in cells THEN NULL ELSE g[r][c]]]

\* this step is the click on (r, c), and the click makes the sum of the
\* selected cells equal to the target
SuccessStep(r, c) ==
  /\ ~clickIgnored(r, c)
  /\ sumOf(grid, toggled(r, c)) = target
  /\ handleBlockClick(r, c)

\* this step is the click on (r, c), and the click makes the sum of the
\* selected cells greater than the target
OvershootStep(r, c) ==
  /\ ~clickIgnored(r, c)
  /\ sumOf(grid, toggled(r, c)) > target
  /\ handleBlockClick(r, c)

\* this step is the callback of the time-mode interval at timeLeft <= 1
TimeoutStep == timeLeft <= 1 /\ timeTick

\* this step is the callback of the classic-mode interval
ClassicTimerStep == elapsed + 1 = ClassicTicks /\ classicTick

\* what C3 states of a success, but for the selected cells being empty
C3_Rest(r, c) ==
  /\ selected' = {}
  /\ score' = score + target * Cardinality(toggled(r, c))
  /\ target' \in generateNewTarget(Emptied(grid, toggled(r, c)))

\* C3 as stated: after a click that makes the sum equal to the target, in
\* either mode, the cells that were selected are empty, the selection is
\* empty, the score has grown by (old target) x (number of selected cells),
\* and the target is one generated from the grid as it is after the clear.
C3_SuccessClearsSelectedCells ==
  [][\A r \in Rows, c \in Cols :
       SuccessStep(r, c) =>
         /\ \A cell \in toggled(r, c) : valueAt(grid', cell) = NULL
         /\ C3_Rest(r, c)]_vars

\* C3 amended: as stated, except that in classic mode, when the success
\* injects a row, the cleared cells have moved up with their rows: for
\* every selected (r, c) with r >= 1 the cell (r - 1, c) is empty. In time
\* mode, and in classic mode when the injection ends the game instead, the
\* selected cells are empty.
C3_SuccessClearsSelectedBlocks ==
  [][\A r \in Rows, c \in Cols :
       SuccessStep(r, c) =>
         /\ \A cell \in toggled(r, c) :
              IF mode = "classic" /\ ~RowZeroOccupied(Emptied(grid, toggled(r, c)))
              THEN cell[1] >= 1 => grid'[cell[1] - 1][cell[2]] = NULL
              ELSE valueAt(grid', cell) = NULL
         /\ C3_Rest(r, c)]_vars

\* a classic-mode success that has injected a row: the cleared cells are
\* one row above the new bottom row
C3_Witness ==
  /\ last = "success"
  /\ mode = "classic"
  /\ status = "playing"
  /\ score > 0
  /\ \E c \in Cols : grid[GRID_ROWS - 2][c] = NULL

\* C4: after a click that makes the sum greater than the target, the
\* selection is empty and grid, score, target, status and timeLeft are as
\* before.
C4_OvershootClearsSelectionOnly ==
  [][\A r \in Rows, c \in Cols :
       OvershootStep(r, c) =>
         /\ selected' = {}
         /\ UNCHANGED <<grid, score, target, status, timeLeft>>]_vars

\* an overshoot has happened
C4_Witness ==
  /\ last = "overshoot"
  /\ selected = {}
  /\ status = "playing"

\* C5: addNewRow on a grid whose row 0 holds a block sets status to gameover
\* and leaves the grid as it was, whether a classic-mode success, the
\* classic timer or a time-mode tick called it.
C5_InjectOnOccupiedTopEndsGame ==
  [][/\ (TimeoutStep \/ ClassicTimerStep) /\ RowZeroOccupied(grid)
          => status' = "gameover" /\ grid' = grid
     /\ \A r \in Rows, c \in Cols :
          /\ SuccessStep(r, c)
          /\ mode = "classic"
          /\ RowZeroOccupied(Emptied(grid, toggled(r, c)))
          => status' = "gameover" /\ grid' = Emptied(grid, toggled(r, c))]_vars

\* a classic-mode success has ended the game: its clear left a block in
\* row 0
C5_Witness ==
  /\ last = "success"
  /\ status = "gameover"
  /\ RowZeroOccupied(grid)

\* the grid next is the grid prev shifted up by one row, over a bottom row
\* that is full, with values in 1..9, and no block of prev is lost
ShiftedUp(prev, next) ==
  /\ \A i \in 0 .. (GRID_ROWS - 2) : next[i] = prev[i + 1]
  /\ \A c \in Cols : next[GRID_ROWS - 1][c] \in 1 .. 9
  /\ Cardinality(occupied(next)) = Cardinality(occupied(prev)) + GRID_COLS

\* C6: addNewRow on a grid whose row 0 is empty shifts every row up by one,
\* fills row ROWS-1 with blocks of values in [1,9], loses no block, and
\* leaves status playing.
C6_InjectOnEmptyTopShifts ==
  [][/\ (TimeoutStep \/ ClassicTimerStep) /\ ~RowZeroOccupied(grid)
          => status' = "playing" /\ ShiftedUp(grid, grid')
     /\ \A r \in Rows, c \in Cols :
          /\ SuccessStep(r, c)
          /\ mode = "classic"
          /\ ~RowZeroOccupied(Emptied(grid, toggled(r, c)))
          => status' = "playing" /\ ShiftedUp(Emptied(grid, toggled(r, c)), grid')]_vars

\* a timer has injected a row under rows that held blocks
C6_Witness ==
  /\ last \in {"timeout", "classicTimer"}
  /\ status = "playing"
  /\ \A c \in Cols : grid[GRID_ROWS - 1][c] # NULL
  /\ \E c \in Cols : grid[GRID_ROWS - 2][c] # NULL

\* C7: in every reachable state highScore >= score.
C7_HighScoreAtLeastScore == highScore >= score

\* C8: once status is gameover, no step but returnToMenu (status -> idle)
\* and initialize (status -> playing) changes grid, selection, target,
\* score, timeLeft or paused.
C8_GameOverFrozen ==
  [][status = "gameover" /\ status' = "gameover"
       => UNCHANGED <<grid, selected, target, score, timeLeft, isPaused>>]_vars

\* C9: while paused during playing, no click and no timer event changes
\* grid, selection, target, score, timeLeft or status (only returnToMenu
\* leaves the paused game); pause and resume change only paused.
C9_PausedFreezesGame ==
  [][/\ status = "playing" /\ isPaused /\ status' # "idle"
          => UNCHANGED <<grid, selected, target, score, timeLeft, status>>
     /\ isPaused' # isPaused /\ status' = status
          => UNCHANGED <<grid, selected, target, score, timeLeft, status,
                         mode, highScore>>]_vars

\* a game paused in the middle of a selection, its interval cleared
C9_Witness ==
  /\ status = "playing"
  /\ isPaused
  /\ ~effectsPending
  /\ timerRef = "none"
  /\ selected # {}

\* C10: in time mode, playing and not paused, a tick with timeLeft > 1 only
\* decrements timeLeft; a tick with timeLeft <= 1 calls addNewRow once and
\* sets timeLeft to 10: the grid is shifted by one row, or status becomes
\* gameover if row 0 was occupied.
C10_TickDecrementsOrInjects ==
  [][timeTick /\ mode = "time" /\ status = "playing" /\ ~isPaused =>
       IF timeLeft > 1
       THEN /\ timeLeft' = timeLeft - 1
            /\ UNCHANGED <<grid, selected, target, score, status, isPaused,
                           mode, highScore>>
       ELSE /\ timeLeft' = 10
            /\ IF RowZeroOccupied(grid)
               THEN status' = "gameover" /\ grid' = grid
               ELSE status' = "playing" /\ ShiftedUp(grid, grid')
            /\ UNCHANGED <<selected, target, score, isPaused, mode,
                           highScore>>]_vars

\* a tick at timeLeft = 1 has injected a row and set timeLeft to 10
C10_Witness ==
  /\ mode = "time"
  /\ last = "timeout"
  /\ status = "playing"
  /\ timeLeft = 10

\* what addNewRow makes of the grid prev: it ends the game and leaves prev,
\* or it leaves the game playing and shifts prev over a fresh bottom row
InjectedOnce(prev) ==
  IF RowZeroOccupied(prev)
  THEN status' = "gameover" /\ grid' = prev
  ELSE status' = "playing" /\ ShiftedUp(prev, grid')

\* C11: every success in classic mode runs addNewRow exactly once, on the
\* grid as cleared, the new target being one generated from that cleared
\* grid, and leaves timeLeft; every success in time mode injects no row (the
\* grid is the cleared grid) and sets timeLeft to min(timeLeft + 5, 20).
C11_SuccessInjectsOrAddsTime ==
  [][\A r \in Rows, c \in Cols :
       SuccessStep(r, c) =>
         LET cleared == Emptied(grid, toggled(r, c))
         IN /\ target' \in generateNewTarget(cleared)
            /\ IF mode = "classic"
               THEN InjectedOnce(cleared) /\ timeLeft' = timeLeft
               ELSE /\ grid' = cleared
                    /\ status' = "playing"
                    /\ timeLeft' = (IF timeLeft + 5 < 20 THEN timeLeft + 5 ELSE 20)]_vars

\* a time-mode success that leaves timeLeft at the cap
C11_Witness ==
  /\ last = "success"
  /\ mode = "time"
  /\ status = "playing"
  /\ timeLeft = 20

\* C12: in every state with status gameover row 0 of the grid holds a
\* block; and status becomes gameover only from playing, in a step that
\* runs addNewRow (a timeout, a callback of the classic timer, a success of
\* classic mode) and leaves the grid addNewRow found, with a block in row 0.
C12_GameOverOnlyByInjectOnOccupiedTop ==
  /\ [](status = "gameover" => RowZeroOccupied(grid))
  /\ [][status' = "gameover" /\ status # "gameover" =>
          /\ status = "playing"
          /\ RowZeroOccupied(grid')
          /\ \/ TimeoutStep /\ grid' = grid
             \/ ClassicTimerStep /\ grid' = grid
             \/ \E r \in Rows, c \in Cols :
                  /\ SuccessStep(r, c)
                  /\ mode = "classic"
                  /\ grid' = Emptied(grid, toggled(r, c))]_vars

\* a classic game ended by the addNewRow of a success
C12_Witness ==
  /\ status = "gameover"
  /\ last = "success"
  /\ mode = "classic"
  /\ RowZeroOccupied(grid)

\* C13: initGame(mode), from idle or from gameover, leaves status playing,
\* a grid whose top GRID_ROWS - INITIAL_ROWS rows are empty and whose bottom
\* INITIAL_ROWS rows are full with values in [1,9], score 0, an empty
\* selection, paused false, timeLeft 15 in time mode and 0 in classic mode,
\* a target generated from the new grid, and highScore as it was.
C13_InitGameState ==
  [][\A selectedMode \in {"classic", "time"} :
       initGame(selectedMode) =>
         /\ status \in {"idle", "gameover"}
         /\ status' = "playing"
         /\ mode' = selectedMode
         /\ DOMAIN grid' = Rows
         /\ \A r \in Rows : DOMAIN grid'[r] = Cols
         /\ \A r \in Rows, c \in Cols :
              IF r < GRID_ROWS - INITIAL_ROWS
              THEN grid'[r][c] = NULL
              ELSE grid'[r][c] \in 1 .. 9
         /\ score' = 0
         /\ selected' = {}
         /\ isPaused' = FALSE
         /\ timeLeft' = (IF selectedMode = "time" THEN 15 ELSE 0)
         /\ target' \in generateNewTarget(grid')
         /\ highScore' = highScore]_vars

\* a classic game started with the high score of a game before on record
C13_Witness ==
  /\ last = "initGame"
  /\ status = "playing"
  /\ highScore > 0
  /\ score = 0
  /\ mode = "classic"
  /\ timeLeft = 0

\* a callback of one of the two intervals
TimerCallback == timeTick \/ classicTick

\* C14 as stated: in every reachable state an interval is registered only
\* while status is playing and the game is not paused, and it is the one of
\* the current mode.
C14_TimerOnlyWhileTicking ==
  timerRef # "none" => status = "playing" /\ ~isPaused /\ timerRef = mode

\* C14 amended: once the effects of a commit have run, an interval is
\* registered exactly when status is playing and the game is not paused, it
\* is the one of the current mode, and it was started after the commit that
\* began this stretch of ticking; and every callback of an interval runs on
\* a playing, unpaused game of the interval's own mode.
C14_TimerReleasedBeforeNextCallback ==
  /\ [](~effectsPending =>
          timerRef = (IF status = "playing" /\ ~isPaused THEN mode ELSE "none"))
  /\ [][TimerCallback =>
          status = "playing" /\ ~isPaused /\ timerRef = mode]_vars

\* a classic game paused after its interval had run for a second or more:
\* the cleanup has released the interval
C14_Witness ==
  /\ status = "playing"
  /\ mode = "classic"
  /\ isPaused
  /\ forgot
  /\ ~effectsPending
  /\ timerRef = "none"

\* C15: every callback of the classic interval comes exactly ClassicTicks
\* unpaused seconds after the game started or after the callback before:
\* no second the interval ran in between was forgotten by a restart.
C15_ClassicTimerEvery15UnpausedTicks ==
  [][ClassicTimerStep => ~forgot]_vars

\* a success scores 5 points or more: the count of a game's successes
SuccessCounts == 0 .. (MaxScore \div 5)

\* C16: from every playing, unpaused state the game reaches gameover, unless
\* the player pauses, exits to the menu or completes a success (the count
\* of the successes changes) first.
C16_EventuallyGameOver ==
  \A n \in SuccessCounts :
    (status = "playing" /\ ~isPaused /\ successes = n)
      ~> (status = "gameover" \/ status = "idle" \/ isPaused \/ successes # n)

\* a game the timer ended with no success, pause or exit in it
C16_Witness ==
  /\ status = "gameover"
  /\ score = 0
  /\ ~isPaused
  /\ last \in {"timeout", "classicTimer"}

\* the clamp of sum to [5, 40]
Clamped(sum) == IF sum < 5 THEN 5 ELSE IF sum > 40 THEN 40 ELSE sum

\* t is the clamp of the sum of size distinct blocks of g
SumOfBlocks(g, size, t) ==
  \E picked \in SUBSET occupied(g) :
    Cardinality(picked) = size /\ t = Clamped(sumOf(g, picked))

\* C17 as stated: a target drawn from a grid with no block is 10; one drawn
\* from a grid with a block is the clamp to [5,40] of the sum of k distinct
\* blocks of it, for a k with 2 <= k <= min(4, number of blocks).
C17_TargetFromTwoToFourBlocks ==
  last = "generateNewTarget" =>
    LET n == Cardinality(occupied(grid))
    IN IF n = 0 THEN target = 10
       ELSE \E k \in 2 .. 4 : k <= n /\ SumOfBlocks(grid, k, target)

\* C17 amended: a target drawn from a grid with no block is 10; one drawn
\* from a grid with a block is the clamp to [5,40] of the sum of k distinct
\* blocks of it, k being the smaller of the number of blocks and of a count
\* among 2, 3 and 4 (so the value of the block when the grid has one).
C17_TargetFromUpToFourBlocks ==
  last = "generateNewTarget" =>
    LET n == Cardinality(occupied(grid))
    IN IF n = 0 THEN target = 10
       ELSE \E j \in 2 .. 4 :
              SumOfBlocks(grid, IF n < j THEN n ELSE j, target)

\* a target drawn from a grid of one block
C17_Witness ==
  /\ last = "generateNewTarget"
  /\ Cardinality(occupied(grid)) = 1
  /\ target = 5
  /\ sampled = 3

\* C18: in every playing state the values of the selected cells sum to
\* less than target.
C18_SelectionSumBelowTarget ==
  status = "playing" => sumOf(grid, selected) < target

\* C19: in every playing state whose target was drawn as a sum of 5 or more
\* from a grid with a block, the values of some set of one to four blocks
\* of the grid sum to target.
C19_TargetStaysAchievable ==
  status = "playing" /\ sampled >= 5 =>
    \E cells \in SUBSET occupied(grid) :
      /\ Cardinality(cells) \in 1 .. 4
      /\ sumOf(grid, cells) = target

\* a target drawn after a success, and a row the timer of time mode
\* injected since
C19_Witness ==
  /\ status = "playing"
  /\ mode = "time"
  /\ sampled >= 5
  /\ successes > 0
  /\ last = "timeout"
  /\ \E cell \in Cells : valueAt(grid, cell) = NULL /\ cell[1] > 0

====
